---- MODULE Spec2Model ----
(***************************************************************************)
(* A model of jest-fuzzer (src/src/index.ts): the Fuzzer generator engine  *)
(* and the fuzz / fuzzExplained test harness built on it.                  *)
(*                                                                         *)
(* JavaScript numbers are IEEE-754 binary64.  Raw samples and the values   *)
(* computed from them are carried as exact dyadic rationals (a natural     *)
(* numerator in little-endian limbs over a power-of-two denominator), and  *)
(* every arithmetic operator of the source rounds its exact result to 53   *)
(* significant bits, ties to even, as the machine does.                    *)
(***************************************************************************)
EXTENDS Integers, Sequences, FiniteSets, TLC

(***************************************************************************)
(* Natural numbers of any size: little-endian sequences of limbs.          *)
(***************************************************************************)

RECURSIVE IntBitLen(_)
IntBitLen(n) == IF n = 0 THEN 0 ELSE 1 + IntBitLen(n \div 2)

Limb == 2^13
LimbBits == IntBitLen(Limb) - 1

RECURSIVE BigNorm(_)
BigNorm(x) ==
  IF x = <<>> THEN <<>>
  ELSE IF x[Len(x)] = 0 THEN BigNorm(SubSeq(x, 1, Len(x) - 1))
  ELSE x

RECURSIVE BigFromInt(_)
BigFromInt(n) ==
  IF n = 0 THEN <<>> ELSE <<n % Limb>> \o BigFromInt(n \div Limb)

RECURSIVE BigToInt(_)
BigToInt(x) ==
  IF x = <<>> THEN 0 ELSE x[1] + Limb * BigToInt(Tail(x))

\* A function over 1..n as a tuple
AsSeq(f) == SubSeq(f, 1, Len(f))

RECURSIVE BigCarry(_)
\* Limbs that may exceed Limb - 1, brought back below Limb: each pass hands
\* every limb's excess to the next limb.
BigCarry(c) ==
  IF \A k \in 1..Len(c) : c[k] < Limb THEN BigNorm(c)
  ELSE BigCarry(AsSeq([k \in 1..(Len(c) + 1) |->
                         (IF k <= Len(c) THEN c[k] % Limb ELSE 0)
                         + (IF k > 1 THEN c[k - 1] \div Limb ELSE 0)]))

\* x * c for a small natural c (c < 2^17)
BigMulSmall(x, c) == BigCarry(AsSeq([k \in 1..Len(x) |-> x[k] * c]))

BigAdd(x, y) ==
  BigCarry(AsSeq([k \in 1..(IF Len(x) > Len(y) THEN Len(x) ELSE Len(y)) |->
                    (IF k <= Len(x) THEN x[k] ELSE 0)
                    + (IF k <= Len(y) THEN y[k] ELSE 0)]))

RECURSIVE BigSubBorrow(_, _, _)
BigSubBorrow(x, y, borrow) ==
  IF x = <<>> THEN <<>>
  ELSE LET b == IF y = <<>> THEN 0 ELSE y[1]
           t == x[1] - b - borrow
       IN  <<t % Limb>>
             \o BigSubBorrow(Tail(x), IF y = <<>> THEN <<>> ELSE Tail(y),
                             IF t < 0 THEN 1 ELSE 0)

\* x - y for x >= y
BigSub(x, y) == BigNorm(BigSubBorrow(x, y, 0))

RECURSIVE BigLess(_, _)
\* x < y, both normalised
BigLess(x, y) ==
  IF Len(x) # Len(y) THEN Len(x) < Len(y)
  ELSE IF x = <<>> THEN FALSE
  ELSE IF x[Len(x)] # y[Len(y)] THEN x[Len(x)] < y[Len(y)]
  ELSE BigLess(BigNorm(SubSeq(x, 1, Len(x) - 1)), BigNorm(SubSeq(y, 1, Len(y) - 1)))

\* x * Limb^n
BigShiftLimbs(x, n) == IF x = <<>> THEN <<>> ELSE [i \in 1..n |-> 0] \o x

\* floor(x / Limb^n)
BigDropLimbs(x, n) == IF Len(x) <= n THEN <<>> ELSE SubSeq(x, n + 1, Len(x))

RECURSIVE BigColumn(_, _, _, _)
\* the sum of the limb products x[i] * y[j] with i + j - 1 = k, for j >= j0
BigColumn(x, y, k, j) ==
  IF j > Len(y) \/ j > k THEN 0
  ELSE (IF k - j + 1 <= Len(x) THEN x[k - j + 1] * y[j] ELSE 0)
       + BigColumn(x, y, k, j + 1)

\* x * y for y of at most 16 limbs (a column sum stays below 2^31)
BigMul(x, y) ==
  IF x = <<>> \/ y = <<>> THEN <<>>
  ELSE BigCarry(AsSeq([k \in 1..(Len(x) + Len(y)) |-> BigColumn(x, y, k, 1)]))

RECURSIVE BigPow(_, _)
BigPow(x, n) == IF n = 0 THEN <<1>> ELSE BigMul(BigPow(x, n - 1), x)

BigBitLen(x) == IF x = <<>> THEN 0 ELSE LimbBits * (Len(x) - 1) + IntBitLen(x[Len(x)])

\* bit i (from 0) of x
BigBit(x, i) ==
  LET k == (i \div LimbBits) + 1
  IN  IF k > Len(x) THEN 0 ELSE (x[k] \div 2^(i % LimbBits)) % 2

\* x with its bits below bit s cleared
BigClearLow(x, s) ==
  [k \in 1..Len(x) |->
     IF k < (s \div LimbBits) + 1 THEN 0
     ELSE IF k = (s \div LimbBits) + 1
          THEN x[k] - (x[k] % 2^(s % LimbBits))
          ELSE x[k]]

BigPow2(s) == [k \in 1..((s \div LimbBits) + 1) |->
                 IF k = (s \div LimbBits) + 1 THEN 2^(s % LimbBits) ELSE 0]

(***************************************************************************)
(* IEEE-754 binary64: a result is rounded to 53 significant bits, to       *)
(* nearest, ties to even.  x is the exact numerator; the denominator (a    *)
(* power of two) is unchanged by the rounding.                             *)
(***************************************************************************)
RoundToDouble(x) ==
  LET s == BigBitLen(x) - 53
  IN  IF s <= 0 THEN x
      ELSE LET kept == BigClearLow(x, s)
               guard == BigBit(x, s - 1)
               sticky == IF s = 1 THEN FALSE ELSE BigClearLow(x, s - 1) # x
               odd == BigBit(x, s) = 1
               up == guard = 1 /\ (sticky \/ odd)
           IN  BigNorm(IF up THEN BigAdd(kept, BigPow2(s)) ELSE kept)

(***************************************************************************)
(* Dyadic values: a numerator in units of 2^-52 (FracLimbs limbs below     *)
(* the binary point).                                                      *)
(***************************************************************************)
FracLimbs == 52 \div LimbBits

\* the integer n >= 0 in units of 2^-52
DyadicOfNat(n) == BigShiftLimbs(BigFromInt(n), FracLimbs)

\* Math.floor of a signed dyadic value, units of 2^-k limbs
FloorDyadic(neg, mag, limbs) ==
  LET whole == BigToInt(BigDropLimbs(mag, limbs))
      exact == BigShiftLimbs(BigDropLimbs(mag, limbs), limbs) = mag
  IN  IF ~neg THEN whole
      ELSE IF exact THEN 0 - whole ELSE 0 - whole - 1

(***************************************************************************)
(* The raw source, Math.random(): a double in [0, 1).  The engine's        *)
(* samples are multiples of 2^-52; PSamples are the ones the model draws:  *)
(* 0, 1/4, 57/64, 1/2, 7/8, the largest sample, 1 - 2^-52, and the two     *)
(* samples on either side of 1/100, 45035996273704 * 2^-52 and             *)
(* 45035996273705 * 2^-52 (limbs, lowest first).                           *)
(***************************************************************************)
PSamples ==
  << <<>>,
     <<0, 0, 0, 2^11>>,
     <<0, 0, 0, 57 * 2^7>>,
     <<0, 0, 0, 2^12>>,
     <<0, 0, 0, 7 * 2^10>>,
     <<Limb - 1, Limb - 1, Limb - 1, Limb - 1>>,
     <<7208, 5242, 7536, 81>>,
     <<7209, 5242, 7536, 81>> >>

\* The source's state: where it stands in PSamples, how far it moves per
\* call, and the number of calls made so far.
Math_random(rnd) == PSamples[rnd.pos]

NextRandom(rnd) ==
  [rnd EXCEPT !.pos = ((rnd.pos - 1 + rnd.step) % Len(PSamples)) + 1,
              !.calls = rnd.calls + 1]

(***************************************************************************)
(* Fuzzer<A>: an object holding one generator function.  A fuzzer is kept  *)
(* as the closure it holds: the generator's kind and what it closes over.  *)
(***************************************************************************)
Fz(kind, min, max, value, subs, func) ==
  [kind |-> kind, min |-> min, max |-> max, value |-> value,
   subs |-> subs, func |-> func]

NoFuzzer == Fz("none", 0, 0, 0, <<>>, "")

\* prng => Math.floor(prng * (max + 1 - min) + min), for min <= max
IntRangeGenerator(min, max, prng) ==
  LET product == RoundToDouble(BigMulSmall(prng, max + 1 - min))
      offset == DyadicOfNat(IF min < 0 THEN 0 - min ELSE min)
      neg == min < 0 /\ BigLess(product, offset)
      mag == IF min >= 0 THEN BigAdd(product, offset)
             ELSE IF neg THEN BigSub(offset, product)
             ELSE BigSub(product, offset)
  IN  FloorDyadic(neg, RoundToDouble(mag), FracLimbs)

intRange(min, max) == Fz("intRange", min, max, 0, <<>>, "")

\* the length counted from one: 1 + Math.floor(100 * prng)
StringLength_CountsFromOne(prng) ==
  1 + FloorDyadic(FALSE, RoundToDouble(BigMulSmall(prng, 100)), FracLimbs)

\* prng => Math.floor(100 * prng), the length of a string
StringLengthGenerator(prng) ==
  FloorDyadic(FALSE, RoundToDouble(BigMulSmall(prng, 100)), FracLimbs)

\* Fuzzer.string, a fuzzer built once, when the class is
string == Fz("string", 0, 0, 0, <<>>, "")

\* String.fromCharCode(char): the code unit char modulo 2^16
String_fromCharCode(char) == char % (2^16)

constant(value) == Fz("constant", 0, 0, value, <<>>, "")

\* the length weighted linearly, as the string fuzzer's is
ArrayLength_Linear(prng) ==
  FloorDyadic(FALSE, RoundToDouble(BigMulSmall(prng, 100)), FracLimbs)

\* prng => Math.floor(100 * (prng ** 30))
ArrayLengthGenerator(prng) ==
  LET weighted == RoundToDouble(BigPow(prng, 30))
  IN  FloorDyadic(FALSE, RoundToDouble(BigMulSmall(weighted, 100)), 30 * FracLimbs)

\* The same, computed once for each sample of PSamples.
ArrayLengths == AsSeq([i \in 1..Len(PSamples) |-> ArrayLengthGenerator(PSamples[i])])

ArrayLength(prng) ==
  ArrayLengths[CHOOSE i \in 1..Len(PSamples) : PSamples[i] = prng]

array(fuzzer) == Fz("array", 0, 0, 0, <<fuzzer>>, "")

map(fuzzer, func) == Fz("map", 0, 0, 0, <<fuzzer>>, func)

map2(fuzzerA, fuzzerB, func) == Fz("map", 0, 0, 0, <<fuzzerA, fuzzerB>>, func)

\* map3 generating its second fuzzer first
map3_SecondFirst(fuzzerA, fuzzerB, fuzzerC, func) ==
  Fz("map", 0, 0, 0, <<fuzzerB, fuzzerA, fuzzerC>>, func)

map3(fuzzerA, fuzzerB, fuzzerC, func) ==
  Fz("map", 0, 0, 0, <<fuzzerA, fuzzerB, fuzzerC>>, func)

map4(fuzzerA, fuzzerB, fuzzerC, fuzzerD, func) ==
  Fz("map", 0, 0, 0, <<fuzzerA, fuzzerB, fuzzerC, fuzzerD>>, func)

map5(fuzzerA, fuzzerB, fuzzerC, fuzzerD, fuzzerE, func) ==
  Fz("map", 0, 0, 0, <<fuzzerA, fuzzerB, fuzzerC, fuzzerD, fuzzerE>>, func)

map6(fuzzerA, fuzzerB, fuzzerC, fuzzerD, fuzzerE, fuzzerF, func) ==
  Fz("map", 0, 0, 0,
     <<fuzzerA, fuzzerB, fuzzerC, fuzzerD, fuzzerE, fuzzerF>>, func)

map7(fuzzerA, fuzzerB, fuzzerC, fuzzerD, fuzzerE, fuzzerF, fuzzerG, func) ==
  Fz("map", 0, 0, 0,
     <<fuzzerA, fuzzerB, fuzzerC, fuzzerD, fuzzerE, fuzzerF, fuzzerG>>, func)

map8(fuzzerA, fuzzerB, fuzzerC, fuzzerD, fuzzerE, fuzzerF, fuzzerG, fuzzerH, func) ==
  Fz("map", 0, 0, 0,
     <<fuzzerA, fuzzerB, fuzzerC, fuzzerD, fuzzerE, fuzzerF, fuzzerG, fuzzerH>>,
     func)

(***************************************************************************)
(* The transforms and callbacks a caller passes in.                        *)
(***************************************************************************)
RECURSIVE SumOf(_)
SumOf(args) == IF args = <<>> THEN 0 ELSE args[1] + SumOf(Tail(args))

\* func(...args)
ApplyFunc(func, args) ==
  CASE func = "tuple" -> args
    [] func = "sum" -> SumOf(args)
    [] func = "inc" -> args[1] + 1
    [] func = "zeros" -> [i \in 1..args[1] |-> 0]

\* callback(value): the fuzzer a caller's andThen callback returns
ApplyCallback(callback, value) ==
  CASE callback = "arrayOfLength" -> map(constant(value), "zeros")
    [] callback = "rangeUpTo" -> intRange(0, value)

(***************************************************************************)
(* Generation.  A generation returns the value, the raw source after it,   *)
(* and the log of what it did, in order: every [$generate] call with the   *)
(* sample it drew, and every call of a caller's transform.                 *)
(***************************************************************************)
GenerateEvent(fuzzer, prng) ==
  [ev |-> "generate", fz |-> fuzzer, p |-> prng, func |-> "", args |-> <<>>]

ApplyEvent(func, args) ==
  [ev |-> "apply", fz |-> NoFuzzer, p |-> <<>>, func |-> func, args |-> args]

\* the one value g, as the values of a list of one fuzzer
OneValue(g) == [vals |-> <<g.val>>, rnd |-> g.rnd, log |-> g.log]

RECURSIVE Generate(_, _)
RECURSIVE GenerateInOrder(_, _, _, _)
\* The calls fuzzers[lo][$generate](), ..., fuzzers[hi][$generate](), made
\* one after the other, left to right.
GenerateInOrder(fuzzers, lo, hi, rnd) ==
  IF lo > hi THEN [vals |-> <<>>, rnd |-> rnd, log |-> <<>>]
  ELSE IF lo = hi
       THEN OneValue(Generate(fuzzers[lo], rnd))
       ELSE LET mid == (lo + hi) \div 2
                left == GenerateInOrder(fuzzers, lo, mid, rnd)
                right == GenerateInOrder(fuzzers, mid + 1, hi, left.rnd)
            IN  [vals |-> left.vals \o right.vals, rnd |-> right.rnd,
                 log |-> left.log \o right.log]

\* the value of a composite whose inputs gave ins: func applied to them
Applied(func, ins) ==
  [val |-> ApplyFunc(func, ins.vals), rnd |-> ins.rnd,
   log |-> Append(ins.log, ApplyEvent(func, ins.vals))]

\* the string of the characters chars gave, joined: its code units in order
Joined(chars) ==
  [val |-> [i \in 1..Len(chars.vals) |-> String_fromCharCode(chars.vals[i])],
   rnd |-> chars.rnd, log |-> chars.log]

\* the array of the values its slots gave
Filled(slots) == [val |-> slots.vals, rnd |-> slots.rnd, log |-> slots.log]

\* this.generator(prng): the generator functions of the constructors
Generator(fuzzer, prng, rnd) ==
  CASE fuzzer.kind = "intRange" ->
         [val |-> IntRangeGenerator(fuzzer.min, fuzzer.max, prng),
          rnd |-> rnd, log |-> <<>>]
    [] fuzzer.kind = "string" ->
         LET length == StringLengthGenerator(prng)
         IN  Joined(GenerateInOrder([i \in 1..length |-> intRange(32, 126)],
                                    1, length, rnd))
    [] fuzzer.kind = "constant" ->
         [val |-> fuzzer.value, rnd |-> rnd, log |-> <<>>]
    [] fuzzer.kind = "array" ->
         LET length == ArrayLength(prng)
         IN  Filled(GenerateInOrder([i \in 1..length |-> fuzzer.subs[1]],
                                    1, length, rnd))
    [] fuzzer.kind = "map" ->
         Applied(fuzzer.func,
                 GenerateInOrder(fuzzer.subs, 1, Len(fuzzer.subs), rnd))

\* what a [$generate] call on fuzzer returns and logs, given the sample it
\* drew and what its generator function did with it
Sampled(fuzzer, prng, g) ==
  [val |-> g.val, rnd |-> g.rnd, log |-> <<GenerateEvent(fuzzer, prng)>> \o g.log]

\* [$generate] drawing a sample for the primitives only
Generate_CompositeDoesNotSample(fuzzer, rnd) ==
  LET own == fuzzer.kind \notin {"map", "constant"}
      prng == IF own THEN Math_random(rnd) ELSE <<>>
      g == Generator(fuzzer, prng, IF own THEN NextRandom(rnd) ELSE rnd)
  IN  [val |-> g.val, rnd |-> g.rnd,
       log |-> <<GenerateEvent(fuzzer, prng)>> \o g.log]

\* fuzzer[$generate]() == this.generator(Math.random())
Generate(fuzzer, rnd) ==
  Sampled(fuzzer, Math_random(rnd),
          Generator(fuzzer, Math_random(rnd), NextRandom(rnd)))

\* Fuzzer.andThen(fuzzer, callback) == callback(fuzzer[$generate]())
andThen(fuzzer, callback, rnd) ==
  LET g == Generate(fuzzer, rnd)
  IN  [fuzzer |-> ApplyCallback(callback, g.val), rnd |-> g.rnd, log |-> g.log]

\* The instance methods: the static forms with the receiver first.
this_map(this, func) == map(this, func)

this_map2(this, fuzzerB, func) == map2(this, fuzzerB, func)

this_map3(this, fuzzerB, fuzzerC, func) == map3(this, fuzzerB, fuzzerC, func)

this_map4(this, fuzzerB, fuzzerC, fuzzerD, func) ==
  map4(this, fuzzerB, fuzzerC, fuzzerD, func)

this_map5(this, fuzzerB, fuzzerC, fuzzerD, fuzzerE, func) ==
  map5(this, fuzzerB, fuzzerC, fuzzerD, fuzzerE, func)

this_map6(this, fuzzerB, fuzzerC, fuzzerD, fuzzerE, fuzzerF, func) ==
  map6(this, fuzzerB, fuzzerC, fuzzerD, fuzzerE, fuzzerF, func)

this_map7(this, fuzzerB, fuzzerC, fuzzerD, fuzzerE, fuzzerF, fuzzerG, func) ==
  map7(this, fuzzerB, fuzzerC, fuzzerD, fuzzerE, fuzzerF, fuzzerG, func)

this_map8(this, fuzzerB, fuzzerC, fuzzerD, fuzzerE, fuzzerF, fuzzerG, fuzzerH, func) ==
  map8(this, fuzzerB, fuzzerC, fuzzerD, fuzzerE, fuzzerF, fuzzerG, fuzzerH, func)

this_andThen(this, callback, rnd) == andThen(this, callback, rnd)

(***************************************************************************)
(* Bounds of the model.                                                    *)
(***************************************************************************)
\* the raw source moves 1..MaxStep places in PSamples per call
MaxStep == 2
\* intRange and constant arguments are drawn from -MaxInt..MaxInt
MaxInt == 3
\* generations made from one declared fuzzer
MaxGens == 2

(***************************************************************************)
(* The fuzzers a caller composes.                                          *)
(***************************************************************************)
InputFuzzers ==
  << intRange(0, 1), intRange(10, 12), constant(20), intRange(30, 31),
     intRange(-5, -4), constant(50), intRange(60, 62), intRange(71, 75) >>

\* n input fuzzers, starting at place r + 1 of InputFuzzers
Inputs(n, r) ==
  [i \in 1..n |-> InputFuzzers[((i - 1 + r) % Len(InputFuzzers)) + 1]]

ElementFuzzers ==
  InputFuzzers
    \o << map2(intRange(0, 1), constant(20), "sum"), array(intRange(0, 1)) >>

AndThenInputs == << intRange(0, 3), intRange(1, 2), constant(2) >>

Transforms == {"tuple", "sum"}

Callbacks == {"arrayOfLength", "rangeUpTo"}

\* Fuzzer.mapN(fuzzers[1], ..., fuzzers[N], func)
StaticMapN(fuzzers, func) ==
  CASE Len(fuzzers) = 2 -> map2(fuzzers[1], fuzzers[2], func)
    [] Len(fuzzers) = 3 -> map3(fuzzers[1], fuzzers[2], fuzzers[3], func)
    [] Len(fuzzers) = 4 ->
         map4(fuzzers[1], fuzzers[2], fuzzers[3], fuzzers[4], func)
    [] Len(fuzzers) = 5 ->
         map5(fuzzers[1], fuzzers[2], fuzzers[3], fuzzers[4], fuzzers[5], func)
    [] Len(fuzzers) = 6 ->
         map6(fuzzers[1], fuzzers[2], fuzzers[3], fuzzers[4], fuzzers[5],
              fuzzers[6], func)
    [] Len(fuzzers) = 7 ->
         map7(fuzzers[1], fuzzers[2], fuzzers[3], fuzzers[4], fuzzers[5],
              fuzzers[6], fuzzers[7], func)
    [] Len(fuzzers) = 8 ->
         map8(fuzzers[1], fuzzers[2], fuzzers[3], fuzzers[4], fuzzers[5],
              fuzzers[6], fuzzers[7], fuzzers[8], func)

\* fuzzers[1].mapN(fuzzers[2], ..., fuzzers[N], func)
MethodMapN(fuzzers, func) ==
  CASE Len(fuzzers) = 2 -> this_map2(fuzzers[1], fuzzers[2], func)
    [] Len(fuzzers) = 3 -> this_map3(fuzzers[1], fuzzers[2], fuzzers[3], func)
    [] Len(fuzzers) = 4 ->
         this_map4(fuzzers[1], fuzzers[2], fuzzers[3], fuzzers[4], func)
    [] Len(fuzzers) = 5 ->
         this_map5(fuzzers[1], fuzzers[2], fuzzers[3], fuzzers[4], fuzzers[5],
                   func)
    [] Len(fuzzers) = 6 ->
         this_map6(fuzzers[1], fuzzers[2], fuzzers[3], fuzzers[4], fuzzers[5],
                   fuzzers[6], func)
    [] Len(fuzzers) = 7 ->
         this_map7(fuzzers[1], fuzzers[2], fuzzers[3], fuzzers[4], fuzzers[5],
                   fuzzers[6], fuzzers[7], func)
    [] Len(fuzzers) = 8 ->
         this_map8(fuzzers[1], fuzzers[2], fuzzers[3], fuzzers[4], fuzzers[5],
                   fuzzers[6], fuzzers[7], fuzzers[8], func)

(***************************************************************************)
(* The test harness.                                                       *)
(***************************************************************************)
TEST_PASSES == 100

\* `${value}` for a number: its decimal digits, as a sequence of characters
Digits == <<"0", "1", "2", "3", "4", "5", "6", "7", "8", "9">>

RECURSIVE NaturalToString(_)
NaturalToString(n) ==
  IF n < 10 THEN <<Digits[n + 1]>>
  ELSE Append(NaturalToString(n \div 10), Digits[(n % 10) + 1])

NumberToString(n) ==
  IF n < 0 THEN <<"-">> \o NaturalToString(0 - n) ELSE NaturalToString(n)

ValueLabels == <<"\nValue #1: ", "\nValue #2: ", "\nValue #3: ">>

RECURSIVE ExplainedValues(_, _)
\* "\nValue #i: ${vals[i]}" for i = from .. Len(vals), joined
ExplainedValues(vals, from) ==
  IF from > Len(vals) THEN <<>>
  ELSE <<ValueLabels[from]>> \o NumberToString(vals[from])
         \o ExplainedValues(vals, from + 1)

\* `${desc}\nValue #1: ${a}...`: a string, kept as the sequence of its pieces
ExplainedName(desc, vals) == <<desc>> \o ExplainedValues(vals, 1)

\* A check function: it returns ret, or throws on its k-th call ("throwAt"),
\* or throws when its first argument is k ("throwIfFirst").
Check(kind, k, ret) == [kind |-> kind, k |-> k, ret |-> ret]

NoError == <<>>

\* func(...args), the nth call of func
CallFunc(func, args, nth) ==
  LET throws == CASE func.kind = "pass" -> FALSE
                  [] func.kind = "throwAt" -> nth = func.k
                  [] func.kind = "throwIfFirst" -> args[1] = func.k
  IN  [threw |-> throws,
       error |-> IF throws THEN <<"Error", nth>> ELSE NoError,
       ret |-> IF throws THEN "" ELSE func.ret]

\* The closure handed to test(): what it runs and what it closes over.
Body(kind, fuzzers, args, func) ==
  [kind |-> kind, fuzzers |-> fuzzers, args |-> args, func |-> func]

\* test(name, body): the host records the unit and runs its body later.
\* genFrom, genTo and regAt are the raw source's call counts before and after
\* the unit's values were generated and when test() was called.
test(units, name, body, genFrom, genTo, rnd) ==
  Append(units, [name |-> name, body |-> body, genFrom |-> genFrom,
                 genTo |-> genTo, regAt |-> rnd.calls])

\* The unit another test of the file registered before the harness call.
OtherUnit ==
  [name |-> <<"other">>, body |-> Body("other", <<>>, <<>>, Check("pass", 0, "undefined")),
   genFrom |-> 0, genTo |-> 0, regAt |-> 0]

\* test(desc, () => { for (...) { func(fuzzerA[$generate](), ...); } })
fuzz(fuzzer, desc, func, units, rnd) ==
  [units |-> test(units, <<desc>>, Body("batch", <<fuzzer>>, <<>>, func),
                  rnd.calls, rnd.calls, rnd),
   rnd |-> rnd]

fuzz2(fuzzerA, fuzzerB, desc, func, units, rnd) ==
  [units |-> test(units, <<desc>>, Body("batch", <<fuzzerA, fuzzerB>>, <<>>, func),
                  rnd.calls, rnd.calls, rnd),
   rnd |-> rnd]

\* fuzz3 with its first two generators exchanged in the body
fuzz3_SecondFirst(fuzzerA, fuzzerB, fuzzerC, desc, func, units, rnd) ==
  [units |-> test(units, <<desc>>,
                  Body("batch", <<fuzzerB, fuzzerA, fuzzerC>>, <<>>, func),
                  rnd.calls, rnd.calls, rnd),
   rnd |-> rnd]

fuzz3(fuzzerA, fuzzerB, fuzzerC, desc, func, units, rnd) ==
  [units |-> test(units, <<desc>>,
                  Body("batch", <<fuzzerA, fuzzerB, fuzzerC>>, <<>>, func),
                  rnd.calls, rnd.calls, rnd),
   rnd |-> rnd]

\* test(`${desc}\nValue #1: ${a}...`, () => { func(a, ...); }) with the
\* values g just generated
ExplainedTest(desc, func, st, g) ==
  [units |-> test(st.units, ExplainedName(desc, g.vals),
                  Body("explained", <<>>, g.vals, func),
                  st.rnd.calls, g.rnd.calls, g.rnd),
   rnd |-> g.rnd]

\* the pass registering the unit before its values are generated
ExplainedPass_RegistersThenGenerates(fuzzers, desc, func, st) ==
  LET g == GenerateInOrder(fuzzers, 1, Len(fuzzers), st.rnd)
  IN  [units |-> test(st.units, ExplainedName(desc, g.vals),
                      Body("explained", <<>>, g.vals, func),
                      st.rnd.calls, g.rnd.calls, st.rnd),
       rnd |-> g.rnd]

\* the pass whose body hands the values to func last to first
ExplainedPass_BodyReversesValues(fuzzers, desc, func, st) ==
  LET g == GenerateInOrder(fuzzers, 1, Len(fuzzers), st.rnd)
  IN  [units |-> test(st.units, ExplainedName(desc, g.vals),
                      Body("explained", <<>>,
                           [i \in 1..Len(g.vals) |-> g.vals[Len(g.vals) + 1 - i]],
                           func),
                      st.rnd.calls, g.rnd.calls, g.rnd),
       rnd |-> g.rnd]

\* One pass of an Explained loop: generate the values, left to right, then
\* register a unit named after them whose body passes them to func.
ExplainedPass(fuzzers, desc, func, st) ==
  ExplainedTest(desc, func, st, GenerateInOrder(fuzzers, 1, Len(fuzzers), st.rnd))

RECURSIVE ExplainedLoop_OnePassShort(_, _, _, _, _, _)
\* the loop leaving out its last pass: for (let i = lo; i < hi; i += 1)
ExplainedLoop_OnePassShort(fuzzers, desc, func, lo, hi, st) ==
  IF lo >= hi \/ st.rnd.calls < 0 THEN st
  ELSE IF lo + 1 = hi THEN ExplainedPass(fuzzers, desc, func, st)
  ELSE LET mid == (lo + hi) \div 2
       IN  ExplainedLoop_OnePassShort(fuzzers, desc, func, mid, hi,
             ExplainedLoop_OnePassShort(fuzzers, desc, func, lo, mid, st))

RECURSIVE ExplainedLoop(_, _, _, _, _, _)
\* for (let i = lo; i <= hi; i += 1) { ... }
ExplainedLoop(fuzzers, desc, func, lo, hi, st) ==
  IF lo > hi \/ st.rnd.calls < 0 THEN st
  ELSE IF lo = hi THEN ExplainedPass(fuzzers, desc, func, st)
  ELSE LET mid == (lo + hi) \div 2
       IN  ExplainedLoop(fuzzers, desc, func, mid + 1, hi,
                         ExplainedLoop(fuzzers, desc, func, lo, mid, st))

fuzzExplained(fuzzer, desc, func, units, rnd) ==
  ExplainedLoop(<<fuzzer>>, desc, func, 0, TEST_PASSES - 1,
                [units |-> units, rnd |-> rnd])

fuzz2Explained(fuzzerA, fuzzerB, desc, func, units, rnd) ==
  ExplainedLoop(<<fuzzerA, fuzzerB>>, desc, func, 0, TEST_PASSES - 1,
                [units |-> units, rnd |-> rnd])

fuzz3Explained(fuzzerA, fuzzerB, fuzzerC, desc, func, units, rnd) ==
  ExplainedLoop(<<fuzzerA, fuzzerB, fuzzerC>>, desc, func, 0, TEST_PASSES - 1,
                [units |-> units, rnd |-> rnd])

\* func(a, ...) with the values g just generated
BatchCall(func, st, g) ==
  LET r == CallFunc(func, g.vals, st.nth + 1)
  IN  [rnd |-> g.rnd, nth |-> st.nth + 1,
       reps |-> Append(st.reps, [args |-> g.vals, rnd |-> st.rnd, ret |-> r.ret]),
       threw |-> r.threw, error |-> r.error]

\* the pass reusing the values of the body's first pass
BatchPass_ReusesFirstValues(fuzzers, func, st) ==
  LET g == IF st.reps = <<>>
           THEN GenerateInOrder(fuzzers, 1, Len(fuzzers), st.rnd)
           ELSE [vals |-> st.reps[1].args, rnd |-> st.rnd, log |-> <<>>]
      r == CallFunc(func, g.vals, st.nth + 1)
  IN  [rnd |-> g.rnd, nth |-> st.nth + 1,
       reps |-> Append(st.reps, [args |-> g.vals, rnd |-> st.rnd, ret |-> r.ret]),
       threw |-> r.threw, error |-> r.error]

\* One pass of a batched body: generate the values, left to right, and
\* call func with them.  st carries the raw source, the calls of func made
\* so far, the passes made in this body, and what func threw.
BatchPass(fuzzers, func, st) ==
  BatchCall(func, st, GenerateInOrder(fuzzers, 1, Len(fuzzers), st.rnd))

RECURSIVE BatchLoop_IgnoresThrow(_, _, _, _, _)
\* the loop going on after a pass threw, failing at its end
BatchLoop_IgnoresThrow(fuzzers, func, lo, hi, st) ==
  IF lo > hi \/ st.nth < 0 THEN st
  ELSE IF lo = hi
       THEN IF st.threw
            THEN [BatchPass(fuzzers, func, st) EXCEPT !.threw = TRUE,
                                                      !.error = st.error]
            ELSE BatchPass(fuzzers, func, st)
  ELSE LET mid == (lo + hi) \div 2
       IN  BatchLoop_IgnoresThrow(fuzzers, func, mid + 1, hi,
                                  BatchLoop_IgnoresThrow(fuzzers, func, lo, mid, st))

RECURSIVE BatchLoop(_, _, _, _, _)
\* for (let i = lo; i <= hi; i += 1) { ... }: a throw leaves the loop
BatchLoop(fuzzers, func, lo, hi, st) ==
  IF lo > hi \/ st.threw THEN st
  ELSE IF lo = hi THEN BatchPass(fuzzers, func, st)
  ELSE LET mid == (lo + hi) \div 2
       IN  BatchLoop(fuzzers, func, mid + 1, hi,
                     BatchLoop(fuzzers, func, lo, mid, st))

BodyStart(rnd, nth) ==
  [rnd |-> rnd, nth |-> nth, reps |-> <<>>, threw |-> FALSE, error |-> NoError]

\* () => { func(a, b, c); }
ExplainedBody(body, rnd, nth) ==
  LET r == CallFunc(body.func, body.args, nth + 1)
  IN  [rnd |-> rnd, nth |-> nth + 1,
       reps |-> <<[args |-> body.args, rnd |-> rnd, ret |-> r.ret]>>,
       threw |-> r.threw, error |-> r.error]

\* what the host reports of a body that ended in state end
Outcome(rnd, nth, end) ==
  [status |-> IF end.threw THEN "failed" ELSE "passed",
   error |-> end.error, calls |-> end.nth - nth, reps |-> end.reps,
   drawsFrom |-> rnd.calls, drawsTo |-> end.rnd.calls, rnd |-> end.rnd]

\* The host runs a unit's body: the unit fails with what the body throws.
RunBody(body, rnd, nth) ==
  Outcome(rnd, nth,
          CASE body.kind = "batch" ->
                 BatchLoop(body.fuzzers, body.func, 0, TEST_PASSES - 1,
                           BodyStart(rnd, nth))
            [] body.kind = "explained" -> ExplainedBody(body, rnd, nth)
            [] body.kind = "other" -> BodyStart(rnd, nth))

(***************************************************************************)
(* State.                                                                  *)
(*   random    the raw source                                              *)
(*   fuzzer    the fuzzer the caller has declared (NoFuzzer before)        *)
(*   origin    the call that declared it: the combinator, its fuzzer       *)
(*             arguments in the order given, its transform or callback,    *)
(*             and the log of what the call itself did                     *)
(*   lastGen   the latest generation from fuzzer: value, log, raw samples  *)
(*   gens      generations made from fuzzer                                *)
(*   registry  the units registered with the host, in order                *)
(*   results   the outcomes of the units the host has run, in order        *)
(*   funcCalls the calls of the check function made so far                 *)
(*   call      the harness call of the test file (NoCall before it)        *)
(***************************************************************************)
VARIABLES random, fuzzer, origin, lastGen, gens, registry, results, funcCalls, call

engineVars == <<fuzzer, origin, lastGen, gens>>

harnessVars == <<registry, results, funcCalls, call>>

vars == <<random, fuzzer, origin, lastGen, gens, registry, results, funcCalls, call>>

Origin(op, inputs, func, log) ==
  [op |-> op, inputs |-> inputs, func |-> func, log |-> log]

NoGen == [val |-> 0, log |-> <<>>, used |-> 0]

NoCall ==
  [entry |-> "none", fuzzers |-> <<>>, desc |-> "", func |-> Check("pass", 0, ""),
   unitsBefore |-> 0, rndFrom |-> [pos |-> 1, step |-> 1, calls |-> 0],
   drawsTo |-> 0]

RandomInit ==
  random \in [pos : 1..Len(PSamples), step : 1..MaxStep, calls : {0}]

EngineInit ==
  /\ fuzzer = NoFuzzer
  /\ origin = Origin("none", <<>>, "", <<>>)
  /\ lastGen = NoGen
  /\ gens = 0

Init ==
  /\ RandomInit
  /\ EngineInit
  /\ registry = <<>>
  /\ results = <<>>
  /\ funcCalls = 0
  /\ call = NoCall

\* A declaration that only builds the fuzzer object.
Declare(f, op, inputs, func) ==
  /\ fuzzer = NoFuzzer
  /\ fuzzer' = f
  /\ origin' = Origin(op, inputs, func, <<>>)
  /\ UNCHANGED <<random, lastGen, gens, harnessVars>>

Declare_intRange ==
  \E min \in (0 - MaxInt)..MaxInt, max \in (0 - MaxInt)..MaxInt :
    /\ min <= max
    /\ Declare(intRange(min, max), "intRange", <<>>, "")

\* The caller takes Fuzzer.string.
Declare_string == Declare(string, "string", <<>>, "")

Declare_constant ==
  \E value \in (0 - MaxInt)..MaxInt :
    Declare(constant(value), "constant", <<>>, "")

Declare_array ==
  \E i \in 1..Len(ElementFuzzers) :
    Declare(array(ElementFuzzers[i]), "array", <<ElementFuzzers[i]>>, "")

Declare_map ==
  \E i \in 1..Len(ElementFuzzers), func \in {"tuple", "inc"} :
    /\ func = "inc" => ElementFuzzers[i].kind \in {"intRange", "constant"}
    /\ \/ Declare(map(ElementFuzzers[i], func), "map",
                  <<ElementFuzzers[i]>>, func)
       \/ Declare(this_map(ElementFuzzers[i], func), "this.map",
                  <<ElementFuzzers[i]>>, func)

Declare_mapN ==
  \E n \in 2..8, r \in 0..(Len(InputFuzzers) - 1), func \in Transforms :
    \/ Declare(StaticMapN(Inputs(n, r), func), "mapN", Inputs(n, r), func)
    \/ Declare(MethodMapN(Inputs(n, r), func), "this.mapN", Inputs(n, r), func)

\* andThen runs the input fuzzer and the callback in the declaring call.
DeclareThen(returned, op, input, callback) ==
  /\ fuzzer = NoFuzzer
  /\ \E built \in {returned} :
       /\ fuzzer' = built.fuzzer
       /\ random' = built.rnd
       /\ origin' = Origin(op, <<input>>, callback, built.log)
  /\ UNCHANGED <<lastGen, gens, harnessVars>>

Declare_andThen ==
  \E i \in 1..Len(AndThenInputs), callback \in Callbacks :
    \/ DeclareThen(andThen(AndThenInputs[i], callback, random), "andThen",
                   AndThenInputs[i], callback)
    \/ DeclareThen(this_andThen(AndThenInputs[i], callback, random),
                   "this.andThen", AndThenInputs[i], callback)

\* The harness asks the declared fuzzer for a value.
GenerateValue ==
  /\ fuzzer # NoFuzzer
  /\ gens < MaxGens
  /\ \E g \in {Generate(fuzzer, random)} :
         /\ lastGen' = [val |-> g.val, log |-> g.log,
                        used |-> g.rnd.calls - random.calls]
         /\ random' = g.rnd
  /\ gens' = gens + 1
  /\ UNCHANGED <<fuzzer, origin, harnessVars>>

Next ==
  \/ Declare_intRange
  \/ Declare_string
  \/ Declare_constant
  \/ Declare_array
  \/ Declare_map
  \/ Declare_mapN
  \/ Declare_andThen
  \/ GenerateValue

Spec == Init /\ [][Next]_vars

(***************************************************************************)
(* The harness: the test file makes one harness call while the host        *)
(* collects the file's units; the host then runs the units in the order    *)
(* they were registered, each body in one go.                              *)
(***************************************************************************)
HarnessFuzzers == << intRange(0, 2), constant(7), map(intRange(5, 6), "inc") >>

\* The check functions: two that return (undefined, false), one that throws
\* on its 37th call, one that throws when its first argument is 7; for the
\* batched entry points also one that throws on its first and one on its
\* last call of a unit.
Checks ==
  { Check("pass", 0, "undefined"), Check("pass", 0, "false"),
    Check("throwAt", 37, ""), Check("throwIfFirst", 7, "") }

BatchChecks ==
  Checks \cup { Check("throwAt", 1, ""), Check("throwAt", TEST_PASSES, "") }

Descs == {"holds"}

HarnessInit ==
  /\ RandomInit
  /\ EngineInit
  /\ registry = <<OtherUnit>>
  /\ results = <<>>
  /\ funcCalls = 0
  /\ call = NoCall

\* A harness call made by the file, with what it registered.
Called(entry, fuzzers, desc, func, returned) ==
  /\ call = NoCall
  /\ \E done \in {returned} :
       /\ registry' = done.units
       /\ random' = done.rnd
       /\ call' = [entry |-> entry, fuzzers |-> fuzzers, desc |-> desc,
                   func |-> func, unitsBefore |-> Len(registry),
                   rndFrom |-> random, drawsTo |-> done.rnd.calls]
  /\ UNCHANGED <<engineVars, results, funcCalls>>

Distinct2(a, b) == a # b

Distinct3(a, b, c) == a # b /\ a # c /\ b # c

Call_fuzz ==
  \E a \in 1..Len(HarnessFuzzers), desc \in Descs, func \in BatchChecks :
    Called("fuzz", <<HarnessFuzzers[a]>>, desc, func,
           fuzz(HarnessFuzzers[a], desc, func, registry, random))

Call_fuzz2 ==
  \E a, b \in 1..Len(HarnessFuzzers), desc \in Descs, func \in BatchChecks :
    /\ Distinct2(a, b)
    /\ Called("fuzz2", <<HarnessFuzzers[a], HarnessFuzzers[b]>>, desc, func,
              fuzz2(HarnessFuzzers[a], HarnessFuzzers[b], desc, func,
                    registry, random))

Call_fuzz3 ==
  \E a, b, c \in 1..Len(HarnessFuzzers), desc \in Descs, func \in BatchChecks :
    /\ Distinct3(a, b, c)
    /\ Called("fuzz3",
              <<HarnessFuzzers[a], HarnessFuzzers[b], HarnessFuzzers[c]>>,
              desc, func,
              fuzz3(HarnessFuzzers[a], HarnessFuzzers[b], HarnessFuzzers[c],
                    desc, func, registry, random))

Call_fuzzExplained ==
  \E a \in 1..Len(HarnessFuzzers), desc \in Descs, func \in Checks :
    Called("fuzzExplained", <<HarnessFuzzers[a]>>, desc, func,
           fuzzExplained(HarnessFuzzers[a], desc, func, registry, random))

Call_fuzz2Explained ==
  \E a, b \in 1..Len(HarnessFuzzers), desc \in Descs, func \in Checks :
    /\ Distinct2(a, b)
    /\ Called("fuzz2Explained", <<HarnessFuzzers[a], HarnessFuzzers[b]>>,
              desc, func,
              fuzz2Explained(HarnessFuzzers[a], HarnessFuzzers[b], desc, func,
                             registry, random))

Call_fuzz3Explained ==
  \E a, b, c \in 1..Len(HarnessFuzzers), desc \in Descs, func \in Checks :
    /\ Distinct3(a, b, c)
    /\ Called("fuzz3Explained",
              <<HarnessFuzzers[a], HarnessFuzzers[b], HarnessFuzzers[c]>>,
              desc, func,
              fuzz3Explained(HarnessFuzzers[a], HarnessFuzzers[b],
                             HarnessFuzzers[c], desc, func, registry, random))

\* The host runs the next unit's body.
RunNextUnit ==
  /\ call # NoCall
  /\ Len(results) < Len(registry)
  /\ \E out \in {RunBody(registry[Len(results) + 1].body, random, funcCalls)} :
         /\ results' = Append(results, [status |-> out.status, error |-> out.error,
                                        calls |-> out.calls, reps |-> out.reps,
                                        drawsFrom |-> out.drawsFrom,
                                        drawsTo |-> out.drawsTo])
         /\ random' = out.rnd
         /\ funcCalls' = funcCalls + out.calls
  /\ UNCHANGED <<engineVars, registry, call>>

HarnessNext ==
  \/ Call_fuzz
  \/ Call_fuzz2
  \/ Call_fuzz3
  \/ Call_fuzzExplained
  \/ Call_fuzz2Explained
  \/ Call_fuzz3Explained
  \/ RunNextUnit

HarnessSpec == HarnessInit /\ [][HarnessNext]_vars

(***************************************************************************)
(* Properties of the generator engine, checked under Spec.                 *)
(***************************************************************************)
Generated == gens > 0

\* the value a fuzzer without inputs gives for the sample p
LeafValue(fz, p) ==
  IF fz.kind = "intRange" THEN IntRangeGenerator(fz.min, fz.max, p)
  ELSE fz.value

GenerateEventsOf(log, fz) ==
  {i \in 1..Len(log) : log[i].ev = "generate" /\ log[i].fz = fz}

FromAndThen == origin.op \in {"andThen", "this.andThen"}

\* C1: every generation from the fuzzer andThen(fuzzer, callback) returned
\* generates a fresh value from the input fuzzer in that same generation and
\* returns a value of the fuzzer the callback builds from it; with a callback
\* building an array of exactly n elements, the generated array has the
\* length n drawn in that generation.
C1_AndThenDrawsInputInEachGeneration ==
  (Generated /\ FromAndThen) =>
    \E i \in GenerateEventsOf(lastGen.log, origin.inputs[1]) :
      origin.func = "arrayOfLength" =>
        Len(lastGen.val) = LeafValue(origin.inputs[1], lastGen.log[i].p)

\* C7: for min <= max and every raw sample, the value intRange(min, max)
\* generates is an integer v with min <= v <= max.
C7_IntRangeWithinBounds ==
  (Generated /\ origin.op = "intRange") =>
    (fuzzer.min <= lastGen.val /\ lastGen.val <= fuzzer.max)

FromMapN == origin.op \in {"mapN", "this.mapN"}

\* C8: a generation from mapN(fuzzerA, ..., func), static or method form,
\* generates each input fuzzer exactly once, in the order of the arguments,
\* and only then calls func once, with the i-th fuzzer's value as its i-th
\* argument; the generated value is what func returns.
C8_MapNGeneratesLeftToRightThenApplies ==
  (Generated /\ FromMapN) =>
    LET log == lastGen.log
        n == Len(origin.inputs)
    IN  /\ Len(log) = n + 2
        /\ log[1].ev = "generate"
        /\ \A i \in 1..n :
             /\ log[i + 1].ev = "generate"
             /\ log[i + 1].fz = origin.inputs[i]
        /\ log[n + 2].ev = "apply"
        /\ log[n + 2].func = origin.func
        /\ Len(log[n + 2].args) = n
        /\ \A i \in 1..n :
             log[n + 2].args[i] = LeafValue(origin.inputs[i], log[i + 1].p)
        /\ lastGen.val = ApplyFunc(origin.func, log[n + 2].args)

C8_Witness ==
  /\ Generated
  /\ origin.op = "this.mapN"
  /\ Len(origin.inputs) = 8
  /\ origin.func = "tuple"
  /\ lastGen.val[1] = 31
  /\ lastGen.val[8] = 20

RECURSIVE SamplesOf(_, _, _)
RECURSIVE SamplesOfAll(_, _, _)
\* The raw samples one generation from a fuzzer made of intRange, constant
\* and the map family consumes, when a constant costs constantCost samples
\* and a map costs mapCost samples of its own.
SamplesOf(fz, constantCost, mapCost) ==
  CASE fz.kind = "intRange" -> 1
    [] fz.kind = "constant" -> constantCost
    [] fz.kind = "map" -> mapCost + SamplesOfAll(fz.subs, constantCost, mapCost)

SamplesOfAll(fuzzers, constantCost, mapCost) ==
  IF fuzzers = <<>> THEN 0
  ELSE SamplesOf(fuzzers[1], constantCost, mapCost)
       + SamplesOfAll(Tail(fuzzers), constantCost, mapCost)

RECURSIVE OfFixedCost(_)
OfFixedCost(fz) ==
  \/ fz.kind \in {"intRange", "constant"}
  \/ fz.kind = "map" /\ \A i \in 1..Len(fz.subs) : OfFixedCost(fz.subs[i])

ExactLengths ==
  AsSeq([i \in 1..Len(PSamples) |->
           BigToInt(BigDropLimbs(BigMulSmall(BigPow(PSamples[i], 30), 100),
                                 30 * FracLimbs))])

\* C10: a generation from array(g) draws p once, produces a sequence of
\* length floor(100 * p^30), which lies in 0..99, and calls g's generation
\* exactly once per slot, each element being the value of its own call.
C10_ArrayLengthAndOneGenerationPerSlot ==
  (Generated /\ origin.op = "array") =>
    LET log == lastGen.log
        g == origin.inputs[1]
        len == Len(lastGen.val)
    IN  /\ log[1].ev = "generate"
        /\ GenerateEventsOf(log, fuzzer) = {1}
        /\ len \in 0..99
        /\ \E i \in 1..Len(PSamples) :
             PSamples[i] = log[1].p /\ len = ExactLengths[i]
        /\ Cardinality(GenerateEventsOf(log, g)) = len
        /\ g.kind \in {"intRange", "constant"} =>
             /\ Len(log) = len + 1
             /\ \A k \in 1..len : lastGen.val[k] = LeafValue(g, log[k + 1].p)

C10_Witness ==
  /\ Generated
  /\ origin.op = "array"
  /\ origin.inputs[1].kind = "intRange"
  /\ Len(lastGen.val) = 3
  /\ lastGen.val[1] # lastGen.val[2]

(***************************************************************************)
(* Properties of the harness, checked under HarnessSpec.                   *)
(***************************************************************************)
IsBatch == call.entry \in {"fuzz", "fuzz2", "fuzz3"}

IsExplained == call.entry \in {"fuzzExplained", "fuzz2Explained", "fuzz3Explained"}

\* the raw samples one pass of the call's loop consumes
SamplesPerPass == SamplesOfAll(call.fuzzers, 1, 1)

\* the raw source n calls after rnd
RandomAfter(rnd, n) ==
  [pos |-> ((rnd.pos - 1 + n * rnd.step) % Len(PSamples)) + 1,
   step |-> rnd.step, calls |-> rnd.calls + n]

\* the values of the call's generators, each generated once, first to last,
\* from the raw source at rnd
ValuesInOrder(rnd) ==
  LET n == Len(call.fuzzers)
      a == Generate(call.fuzzers[1], rnd)
      b == Generate(call.fuzzers[IF n >= 2 THEN 2 ELSE 1], a.rnd)
      c == Generate(call.fuzzers[IF n >= 3 THEN 3 ELSE 1], b.rnd)
  IN  CASE n = 1 -> <<a.val>>
        [] n = 2 -> <<a.val, b.val>>
        [] n = 3 -> <<a.val, b.val, c.val>>

\* the values of pass i (1..100) of the call's Explained loop
ValuesOfPass(i) == ValuesInOrder(RandomAfter(call.rndFrom, (i - 1) * SamplesPerPass))

\* some unit of the call has run; LastRun is the latest outcome
CallUnitRan == call # NoCall /\ Len(results) > call.unitsBefore

LastRun == results[Len(results)]

DigitValue(ch) == CHOOSE d \in 0..9 : Digits[d + 1] = ch

RECURSIVE ParseNatural(_, _, _)
\* the number whose decimal digits are text[from..Len(text)], after acc
ParseNatural(text, from, acc) ==
  IF from > Len(text) THEN acc
  ELSE ParseNatural(text, from + 1, 10 * acc + DigitValue(text[from]))

ParseNumber(text) ==
  IF text[1] = "-" THEN 0 - ParseNatural(text, 2, 0) ELSE ParseNatural(text, 1, 0)

\* where the label "\nValue #j: " stands in a name (0: nowhere)
LabelAt(name, j) ==
  IF \E i \in 1..Len(name) : name[i] = ValueLabels[j]
  THEN CHOOSE i \in 1..Len(name) : name[i] = ValueLabels[j]
  ELSE 0

\* the number written after the j-th label of a name of n values
NamedValue(name, j, n) ==
  ParseNumber(SubSeq(name, LabelAt(name, j) + 1,
                     IF j = n THEN Len(name) ELSE LabelAt(name, j + 1) - 1))

\* C2: fuzz, fuzz2 and fuzz3 register exactly one unit; with a check function
\* that never throws, the unit's body calls it exactly 100 times, each time
\* with values generated from fresh raw samples of that pass, and the unit
\* passes.
C2_BatchedUnitMakesHundredFreshPasses ==
  (IsBatch /\ call.func.kind = "pass") =>
    /\ Len(registry) = call.unitsBefore + 1
    /\ registry[Len(registry)].name = <<call.desc>>
    /\ CallUnitRan =>
         /\ LastRun.status = "passed"
         /\ LastRun.error = NoError
         /\ LastRun.calls = 100
         /\ Len(LastRun.reps) = 100
         /\ funcCalls = 100
         /\ \A i \in 1..100 :
              /\ LastRun.reps[i].rnd
                   = RandomAfter(call.rndFrom, (i - 1) * SamplesPerPass)
              /\ LastRun.reps[i].args = ValuesInOrder(LastRun.reps[i].rnd)

C2_Witness ==
  /\ call.entry = "fuzz3"
  /\ call.func.kind = "pass"
  /\ CallUnitRan
  /\ LastRun.status = "passed"
  /\ LastRun.reps[1].args # LastRun.reps[2].args

\* C3: when the check function throws on pass k of a batched unit, the unit
\* fails with what was thrown, the check function has been called exactly k
\* times, and nothing is generated after pass k.
C3_BatchedUnitStopsAtFirstThrow ==
  (IsBatch /\ CallUnitRan) =>
    LET k == LastRun.calls
        reps == LastRun.reps
    IN  /\ call.func.kind = "throwAt" =>
             /\ LastRun.status = "failed"
             /\ k = call.func.k
        /\ call.func.kind = "throwIfFirst" =>
             (LastRun.status = "failed"
                <=> \E i \in 1..Len(reps) : reps[i].args[1] = call.func.k)
        /\ LastRun.status = "failed" =>
             /\ Len(reps) = k
             /\ k \in 1..100
             /\ \A i \in 1..(k - 1) : ~CallFunc(call.func, reps[i].args, i).threw
             /\ CallFunc(call.func, reps[k].args, k).threw
             /\ LastRun.error = CallFunc(call.func, reps[k].args, k).error
             /\ funcCalls = k
             /\ LastRun.drawsTo = LastRun.drawsFrom + k * SamplesPerPass

C3_Witness ==
  /\ call.entry = "fuzz2"
  /\ call.func = Check("throwAt", 37, "")
  /\ CallUnitRan
  /\ LastRun.status = "failed"
  /\ LastRun.calls = 37

\* C4: fuzzExplained, fuzz2Explained and fuzz3Explained register exactly 100
\* units; unit i is named by the description followed by the text of the
\* values generated in pass i, and its body calls the check function exactly
\* once, with the values of pass i.
C4_ExplainedUnitsNamedAndRunWithTheirValues ==
  IsExplained =>
    LET n == Len(call.fuzzers)
    IN  /\ Len(registry) = call.unitsBefore + 100
        /\ results = <<>> =>
             \A i \in 1..100 :
               LET name == registry[call.unitsBefore + i].name
               IN  /\ name[1] = call.desc
                   /\ LabelAt(name, 1) = 2
                   /\ \A j \in 1..n : NamedValue(name, j, n) = ValuesOfPass(i)[j]
        /\ CallUnitRan =>
             LET i == Len(results) - call.unitsBefore
                 name == registry[Len(results)].name
             IN  /\ LastRun.calls = 1
                 /\ Len(LastRun.reps) = 1
                 /\ LastRun.reps[1].args = ValuesOfPass(i)
                 /\ \A j \in 1..n : LastRun.reps[1].args[j] = NamedValue(name, j, n)

C4_Witness ==
  /\ call.entry = "fuzz2Explained"
  /\ Len(results) = call.unitsBefore + 2
  /\ LastRun.reps[1].args # results[Len(results) - 1].reps[1].args
  /\ registry[Len(results)].name # registry[Len(results) - 1].name

\* C5: for the Explained entry points, a unit's values are generated before
\* the unit is registered, all generation of all 100 passes is over before
\* any unit's body runs, running a body draws no raw sample, and the check
\* function is not called during the registering call.
C5_ExplainedGeneratesBeforeRegisteringAndRunning ==
  IsExplained =>
    /\ ~CallUnitRan => funcCalls = 0
    /\ call.drawsTo = call.rndFrom.calls + 100 * SamplesPerPass
    /\ results = <<>> =>
         \A i \in 1..100 :
           LET unit == registry[call.unitsBefore + i]
           IN  /\ unit.genFrom = call.rndFrom.calls + (i - 1) * SamplesPerPass
               /\ unit.genTo = unit.genFrom + SamplesPerPass
               /\ unit.genTo <= unit.regAt
               /\ unit.regAt <= call.drawsTo
               /\ i < 100 => unit.regAt <= registry[call.unitsBefore + i + 1].genFrom
    /\ CallUnitRan =>
         /\ LastRun.drawsFrom >= call.drawsTo
         /\ LastRun.drawsFrom >= registry[Len(registry)].genTo
         /\ LastRun.drawsTo = LastRun.drawsFrom

C5_Witness ==
  /\ call.entry = "fuzz3Explained"
  /\ Len(results) = Len(registry)
  /\ LastRun.calls = 1
  /\ random.calls = call.drawsTo

\* C6: with several generators (fuzz2, fuzz3, fuzz2Explained, fuzz3Explained)
\* every pass samples the generators in the order they were supplied and the
\* check function gets the i-th generator's value as its i-th argument; a
\* check function that returns counts as a pass whatever it returns.
C6_GeneratorsInOrderAndReturnValueIgnored ==
  (call.entry \in {"fuzz2", "fuzz3", "fuzz2Explained", "fuzz3Explained"}
     /\ CallUnitRan) =>
    /\ \A i \in 1..Len(LastRun.reps) :
         LastRun.reps[i].args
           = IF IsBatch
             THEN ValuesInOrder(RandomAfter(LastRun.reps[1].rnd,
                                            (i - 1) * SamplesPerPass))
             ELSE ValuesOfPass(Len(results) - call.unitsBefore)
    /\ call.func.kind = "pass" =>
         /\ LastRun.status = "passed"
         /\ \A i \in 1..Len(LastRun.reps) : LastRun.reps[i].ret = call.func.ret

C6_Witness ==
  /\ call.entry = "fuzz3"
  /\ call.func = Check("pass", 0, "false")
  /\ CallUnitRan
  /\ LastRun.status = "passed"
  /\ LastRun.reps[100].ret = "false"
  /\ LastRun.reps[100].args[1] # LastRun.reps[100].args[2]

(***************************************************************************)
(* Properties of the string primitive, checked under Spec.                 *)
(***************************************************************************)
\* floor(100 * p), in exact arithmetic
ExactStringLength(p) == BigToInt(BigDropLimbs(BigMulSmall(p, 100), FracLimbs))

\* p < 1/100, in exact arithmetic
BelowOneHundredth(p) == BigLess(BigMulSmall(p, 100), DyadicOfNat(1))

\* the sample the raw source, now at rnd, gave n calls ago
SampleBefore(rnd, n) ==
  PSamples[((rnd.pos - 1 + n * (Len(PSamples) - rnd.step)) % Len(PSamples)) + 1]

Declared == fuzzer # NoFuzzer /\ ~Generated

\* C12: building a fuzzer with any combinator executes nothing: the call
\* draws no raw sample and generates no value from any fuzzer (its log is
\* empty: no [$generate] call, no call of a transform), and the fuzzers it
\* was given are the ones the built fuzzer holds.
C12_DeclaringCallExecutesNothing ==
  Declared =>
    /\ random.calls = 0
    /\ origin.log = <<>>
    /\ origin.op \notin {"intRange", "constant", "string"} =>
         fuzzer.subs = origin.inputs

(***************************************************************************)
(* Properties of the repetition loops, checked under HarnessSpec.          *)
(***************************************************************************)
\* the raw source's call count once TEST_PASSES passes have followed the
\* count from
AfterAllPasses(from) == from + TEST_PASSES * SamplesPerPass

\* C13 as stated: whichever the entry point, all TEST_PASSES repetitions
\* have been made when the harness call returns.
C13_EveryLoopCompleteWhenCallReturns ==
  call # NoCall => call.drawsTo = AfterAllPasses(call.rndFrom.calls)

\* C13 as amended: the loop of fuzzExplained, fuzz2Explained and
\* fuzz3Explained makes its TEST_PASSES passes one after the other inside the
\* harness call; the loop of fuzz, fuzz2 and fuzz3 is in the registered
\* unit's body: the harness call returns with no pass made, and the passes
\* are made one after the other when the host runs the body, all TEST_PASSES
\* of them unless the check function throws.
C13_LoopsSequentialInCallOrInBody ==
  call # NoCall =>
    /\ IsExplained =>
         /\ call.drawsTo = AfterAllPasses(call.rndFrom.calls)
         /\ Len(registry) = call.unitsBefore + TEST_PASSES
         /\ results = <<>> =>
              \A i \in 1..TEST_PASSES :
                LET unit == registry[call.unitsBefore + i]
                IN  /\ unit.genFrom
                         = call.rndFrom.calls + (i - 1) * SamplesPerPass
                    /\ unit.regAt = unit.genFrom + SamplesPerPass
    /\ IsBatch =>
         /\ call.drawsTo = call.rndFrom.calls
         /\ ~CallUnitRan => (funcCalls = 0 /\ random = call.rndFrom)
         /\ CallUnitRan =>
              /\ LastRun.drawsFrom = call.drawsTo
              /\ \A i \in 1..Len(LastRun.reps) :
                   LastRun.reps[i].rnd
                     = RandomAfter(call.rndFrom, (i - 1) * SamplesPerPass)
              /\ LastRun.drawsTo
                   = LastRun.drawsFrom + Len(LastRun.reps) * SamplesPerPass
              /\ LastRun.calls = Len(LastRun.reps)
              /\ LastRun.status = "passed" =>
                   /\ Len(LastRun.reps) = TEST_PASSES
                   /\ LastRun.drawsTo = AfterAllPasses(call.rndFrom.calls)
              /\ LastRun.status = "failed" =>
                   Len(LastRun.reps) \in 1..TEST_PASSES

C13_Witness ==
  /\ call.entry = "fuzz"
  /\ CallUnitRan
  /\ LastRun.status = "passed"
  /\ LastRun.drawsFrom = call.drawsTo
  /\ LastRun.drawsTo = AfterAllPasses(call.drawsTo)

====
